---- MODULE Spec2Model ----
(***************************************************************************)
(* Model of downloader.py: the filename builder get_video_filename and the *)
(* download orchestrator download_videos as driven by main.                *)
(*                                                                         *)
(* Strings are sequences of one-character strings, so that splitting,      *)
(* sanitising and padding are computed character by character.             *)
(* The Telegram client, the filesystem and the process signal that kills   *)
(* the program are the environment: their outcomes are nondeterministic.   *)
(***************************************************************************)
EXTENDS Integers, Sequences, FiniteSets, TLC

VARIABLES
    os_name,         \* platform of os.path: "posix" or "nt"
    API_ID,          \* config.API_ID
    API_HASH,        \* config.API_HASH
    CHAT_ID,         \* config.CHAT_ID
    args_list_chats, \* args.list_chats
    chat,            \* the remote chat: its messages in the order iter_messages yields them
    disk,            \* names of the files present in DOWNLOAD_DIR
    dir_exists,      \* whether DOWNLOAD_DIR exists
    pc,              \* position of the process
    video_messages,  \* download_videos: the collected list
    total,           \* download_videos: len(video_messages)
    i,               \* download_videos: loop index
    downloaded,      \* download_videos: counter
    skipped,         \* download_videos: counter
    errors,          \* download_videos: counter
    summary,         \* the printed summary, <<>> while none was printed
    ops,             \* operations performed on the client and the filesystem in this run
    run,             \* number of the current run of the program
    calls,           \* per item: invocations of client.download_media in this run
    outcome,         \* per item: "none", "skipped", "downloaded" or "failed" in this run
    existed,         \* per item: whether its file existed when the loop reached it
    diskAtStart,     \* the files present when this run started
    leftover,        \* <<file, run>>: partial file left behind by a kill during that run
    name_in,         \* filename builder under test: its arguments
    name_out         \* filename builder under test: its result

vars == <<os_name, API_ID, API_HASH, CHAT_ID, args_list_chats, chat, disk, dir_exists, pc,
          video_messages, total, i, downloaded, skipped, errors, summary, ops, run,
          calls, outcome, existed, diskAtStart, leftover, name_in, name_out>>

-----------------------------------------------------------------------------
(* Bounds *)

MaxMsgs == 3
MaxRuns == 2
MaxNameLen == 3

-----------------------------------------------------------------------------
(* Characters *)

Letters == {"a", "Z"}
DigitChars == {"0", "1", "2", "3", "4", "5", "6", "7", "8", "9"}
ControlChars == {"\n", "\t"}

\* the characters file names are drawn from
Alphabet == {"a", "7", " ", "-", ".", "/", "\\", "!", "\n"}

isalnum(c) == c \in Letters \cup DigitChars
isspace(c) == c \in {" ", "\n", "\t"}

RECURSIVE rfind(_, _)
\* highest 1-based position of a character of cs in p, 0 when there is none
rfind(p, cs) ==
    IF Len(p) = 0 THEN 0
    ELSE IF p[Len(p)] \in cs THEN Len(p)
    ELSE rfind(SubSeq(p, 1, Len(p) - 1), cs)

Seps == IF os_name = "nt" THEN {"\\", "/"} ELSE {"/"}

\* os.path.splitext: <<root, ext>>
splitext(p) ==
    LET sepIndex == rfind(p, Seps)
        dotIndex == rfind(p, {"."})
    IN  IF dotIndex > sepIndex
           /\ \E k \in (sepIndex + 1)..(dotIndex - 1) : p[k] # "."
        THEN <<SubSeq(p, 1, dotIndex - 1), SubSeq(p, dotIndex, Len(p))>>
        ELSE <<p, <<>>>>

RECURSIVE lstrip(_)
lstrip(s) == IF Len(s) > 0 /\ isspace(s[1]) THEN lstrip(Tail(s)) ELSE s

RECURSIVE rstrip(_)
rstrip(s) ==
    IF Len(s) > 0 /\ isspace(s[Len(s)]) THEN rstrip(SubSeq(s, 1, Len(s) - 1)) ELSE s

strip(s) == rstrip(lstrip(s))

\* line 49: every character that is not alphanumeric, space, hyphen or underscore
\* becomes an underscore; then the result is stripped
sanitize(name) ==
    strip([k \in 1..Len(name) |->
             IF isalnum(name[k]) \/ name[k] \in {" ", "-", "_"} THEN name[k] ELSE "_"])

DigitOf(d) ==
    CASE d = 0 -> "0" [] d = 1 -> "1" [] d = 2 -> "2" [] d = 3 -> "3" [] d = 4 -> "4"
      [] d = 5 -> "5" [] d = 6 -> "6" [] d = 7 -> "7" [] d = 8 -> "8" [] d = 9 -> "9"

RECURSIVE decimal(_)
decimal(n) == IF n < 10 THEN <<DigitOf(n)>> ELSE Append(decimal(n \div 10), DigitOf(n % 10))

RECURSIVE zfill(_, _)
\* format with a minimum width, padded with zeros on the left, never truncated
zfill(s, width) == IF Len(s) >= width THEN s ELSE zfill(<<"0">> \o s, width)

\* message.date.strftime("%Y-%m-%d")
strftime(date) ==
    zfill(decimal(date.year), 4) \o <<"-">> \o zfill(decimal(date.month), 2)
        \o <<"-">> \o zfill(decimal(date.day), 2)

RECURSIVE first_file_name(_)
\* lines 41-44: the file_name of the first DocumentAttributeFilename, <<>> when none
first_file_name(attributes) ==
    IF Len(attributes) = 0 THEN <<>>
    ELSE IF attributes[1].kind = "DocumentAttributeFilename" THEN attributes[1].file_name
    ELSE first_file_name(Tail(attributes))

mime_to_ext(mime_type) ==
    CASE mime_type = "video/mp4" -> <<".", "m", "p", "4">>
      [] mime_type = "video/quicktime" -> <<".", "m", "o", "v">>
      [] mime_type = "video/x-matroska" -> <<".", "m", "k", "v">>
      [] mime_type = "video/webm" -> <<".", "w", "e", "b", "m">>
      [] mime_type = "video/x-msvideo" -> <<".", "a", "v", "i">>
      [] OTHER -> <<".", "m", "p", "4">>

get_video_filename(message, index) ==
    LET date_str == strftime(message.date)
        original_name ==
            IF message.document.present
            THEN first_file_name(message.document.attributes)
            ELSE <<>>
        prefix == date_str \o <<"_">> \o zfill(decimal(index), 4) \o <<"_">>
    IN  IF original_name # <<>>
        THEN LET parts == splitext(original_name)
             IN  prefix \o sanitize(parts[1]) \o parts[2]
        ELSE LET ext == IF message.document.present /\ message.document.mime_type # ""
                        THEN mime_to_ext(message.document.mime_type)
                        ELSE <<".", "m", "p", "4">>
             IN  prefix \o <<"v", "i", "d", "e", "o">> \o ext

-----------------------------------------------------------------------------
(* The environment: messages of the chat *)

Date1 == [year |-> 2024, month |-> 3, day |-> 5]

NoDocument == [present |-> FALSE, attributes |-> <<>>, mime_type |-> ""]

AttrVideo == [kind |-> "DocumentAttributeVideo", file_name |-> <<>>]
AttrFilename(n) == [kind |-> "DocumentAttributeFilename", file_name |-> n]

\* a video sent as a file named "a!.a7"
MsgNamed ==
    [date |-> Date1, video |-> TRUE,
     document |-> [present |-> TRUE, mime_type |-> "video/mp4",
                   attributes |-> <<AttrVideo, AttrFilename(<<"a", "!", ".", "a", "7">>)>>]]

\* a video without a file name
MsgUnnamed ==
    [date |-> Date1, video |-> TRUE,
     document |-> [present |-> TRUE, mime_type |-> "video/webm",
                   attributes |-> <<AttrVideo>>]]

\* a message that is no video
MsgText == [date |-> Date1, video |-> FALSE, document |-> NoDocument]

MsgPool == {MsgNamed, MsgUnnamed, MsgText}

Chats == UNION {[1..n -> MsgPool] : n \in 0..MaxMsgs}

Items == 1..MaxMsgs

-----------------------------------------------------------------------------
(* download_videos and main *)

iter_messages_unfiltered(c) == c

\* client.iter_messages(chat, filter=InputMessagesFilterVideo), line 101
iter_messages(c) == SelectSeq(c, LAMBDA m : m.video)

reverse_missing(s) == s

\* video_messages.reverse(), line 105
reverse(s) == [k \in 1..Len(s) |-> s[Len(s) + 1 - k]]

exists_isdir(fs, path) == FALSE

\* os.path.exists(filepath), lines 132 and 147
exists(fs, path) == path \in fs

config_gate_without_chat(api_id, api_hash, chat_id) == api_id = 0 \/ api_hash = ""

\* line 81
config_gate(api_id, api_hash, chat_id) == api_id = 0 \/ api_hash = "" \/ chat_id = 0

\* the file name of item k of the collected list, lines 119-120
filename(k) == get_video_filename(video_messages[k], k)

NoCalls == [k \in Items |-> 0]
NoOutcome == [k \in Items |-> "none"]
NoExisted == [k \in Items |-> FALSE]

Init ==
    /\ os_name = "posix"
    /\ API_ID \in {0, 12345}
    /\ API_HASH \in {"", "0123abcd"}
    /\ CHAT_ID \in {0, 1001}
    /\ args_list_chats \in BOOLEAN
    /\ chat \in Chats
    /\ disk \in SUBSET {get_video_filename(reverse(iter_messages(chat))[k], k) :
                            k \in 1..Len(iter_messages(chat))}
    /\ dir_exists \in BOOLEAN
    /\ (disk # {} => dir_exists)
    /\ pc = "start"
    /\ video_messages = <<>>
    /\ total = 0
    /\ i = 0
    /\ downloaded = 0
    /\ skipped = 0
    /\ errors = 0
    /\ summary = <<>>
    /\ ops = {}
    /\ run = 1
    /\ calls = NoCalls
    /\ outcome = NoOutcome
    /\ existed = NoExisted
    /\ diskAtStart = disk
    /\ leftover = {}
    /\ name_in = <<>>
    /\ name_out = <<>>

Fixed == UNCHANGED <<os_name, API_ID, API_HASH, CHAT_ID, args_list_chats, chat,
                     name_in, name_out, run, diskAtStart>>

\* main, lines 160-172: the credentials gate, then the session start
Main ==
    /\ pc = "start"
    /\ IF API_ID = 0 \/ API_HASH = ""
       THEN pc' = "exit" /\ ops' = ops
       ELSE pc' = "authorized" /\ ops' = ops \cup {"start"}
    /\ Fixed
    /\ UNCHANGED <<disk, dir_exists, video_messages, total, i, downloaded, skipped,
                   errors, summary, calls, outcome, existed, leftover>>

\* main, lines 174-175 and 179, with list_chats
ListChats ==
    /\ pc = "authorized"
    /\ args_list_chats
    /\ ops' = ops \cup {"iter_dialogs", "disconnect"}
    /\ pc' = "exit"
    /\ Fixed
    /\ UNCHANGED <<disk, dir_exists, video_messages, total, i, downloaded, skipped,
                   errors, summary, calls, outcome, existed, leftover>>

\* download_videos, lines 81-93: the config gate, makedirs and get_entity
DownloadVideosBegin ==
    /\ pc = "authorized"
    /\ ~args_list_chats
    /\ IF config_gate(API_ID, API_HASH, CHAT_ID)
       THEN /\ pc' = "exit"
            /\ ops' = ops \cup {"disconnect"}
            /\ dir_exists' = dir_exists
       ELSE /\ dir_exists' = TRUE
            /\ \/ /\ pc' = "enumerate"
                  /\ ops' = ops \cup {"makedirs", "get_entity"}
               \/ \* get_entity raises
                  /\ pc' = "exit"
                  /\ ops' = ops \cup {"makedirs", "get_entity", "disconnect"}
    /\ Fixed
    /\ UNCHANGED <<disk, video_messages, total, i, downloaded, skipped,
                   errors, summary, calls, outcome, existed, leftover>>

\* download_videos, lines 99-116
Enumerate ==
    /\ pc = "enumerate"
    /\ video_messages' = reverse(iter_messages(chat))
    /\ total' = Len(video_messages')
    /\ IF total' = 0
       THEN /\ pc' = "exit"
            /\ ops' = ops \cup {"iter_messages", "disconnect"}
            /\ i' = i
       ELSE /\ pc' = "loop"
            /\ ops' = ops \cup {"iter_messages"}
            /\ i' = 1
    /\ downloaded' = 0
    /\ skipped' = 0
    /\ errors' = 0
    /\ Fixed
    /\ UNCHANGED <<disk, dir_exists, summary, calls, outcome, existed, leftover>>

LoopItemNoContinue ==
    /\ pc = "loop"
    /\ i <= total
    /\ existed' = [existed EXCEPT ![i] = exists(disk, filename(i))]
    /\ skipped' = IF exists(disk, filename(i)) THEN skipped + 1 ELSE skipped
    /\ pc' = "downloading"
    /\ ops' = ops \cup {"download_media"}
    /\ calls' = [calls EXCEPT ![i] = @ + 1]
    /\ outcome' = outcome
    /\ i' = i
    /\ Fixed
    /\ UNCHANGED <<disk, dir_exists, video_messages, total, downloaded, errors,
                   summary, leftover>>

\* download_videos, lines 118-140: one item up to the skip or the download call
LoopItem ==
    /\ pc = "loop"
    /\ i <= total
    /\ existed' = [existed EXCEPT ![i] = exists(disk, filename(i))]
    /\ IF exists(disk, filename(i))
       THEN /\ skipped' = skipped + 1
            /\ outcome' = [outcome EXCEPT ![i] = "skipped"]
            /\ i' = i + 1
            /\ UNCHANGED <<pc, ops, calls>>
       ELSE /\ pc' = "downloading"
            /\ ops' = ops \cup {"download_media"}
            /\ calls' = [calls EXCEPT ![i] = @ + 1]
            /\ UNCHANGED <<skipped, outcome, i>>
    /\ Fixed
    /\ UNCHANGED <<disk, dir_exists, video_messages, total, downloaded, errors,
                   summary, leftover>>

\* client.download_media in flight, line 140: it has written part of the file
DownloadProgress ==
    /\ pc = "downloading"
    /\ filename(i) \notin disk
    /\ disk' = disk \cup {filename(i)}
    /\ Fixed
    /\ UNCHANGED <<dir_exists, pc, video_messages, total, i, downloaded, skipped,
                   errors, summary, ops, calls, outcome, existed, leftover>>

DownloadReturnsNoCount ==
    /\ pc = "downloading"
    /\ disk' = disk \cup {filename(i)}
    /\ downloaded' = downloaded
    /\ outcome' = [outcome EXCEPT ![i] = "downloaded"]
    /\ i' = i + 1
    /\ pc' = "loop"
    /\ Fixed
    /\ UNCHANGED <<dir_exists, video_messages, total, skipped, errors, summary, ops,
                   calls, existed, leftover>>

\* client.download_media returns, lines 140-142
DownloadReturns ==
    /\ pc = "downloading"
    /\ disk' = disk \cup {filename(i)}
    /\ downloaded' = downloaded + 1
    /\ outcome' = [outcome EXCEPT ![i] = "downloaded"]
    /\ i' = i + 1
    /\ pc' = "loop"
    /\ Fixed
    /\ UNCHANGED <<dir_exists, video_messages, total, skipped, errors, summary, ops,
                   calls, existed, leftover>>

DownloadRaisesRetry ==
    /\ pc = "downloading"
    /\ errors' = errors + 1
    /\ outcome' = [outcome EXCEPT ![i] = "failed"]
    /\ disk' = disk \ {filename(i)}
    /\ ops' = ops
    /\ pc' = "loop"
    /\ i' = i
    /\ Fixed
    /\ UNCHANGED <<dir_exists, video_messages, total, downloaded, skipped, summary,
                   calls, existed, leftover>>

\* client.download_media raises, lines 143-148
DownloadRaises ==
    /\ pc = "downloading"
    /\ errors' = errors + 1
    /\ outcome' = [outcome EXCEPT ![i] = "failed"]
    /\ IF exists(disk, filename(i))
       THEN \/ /\ disk' = disk \ {filename(i)}
               /\ ops' = ops \cup {"remove"}
               /\ pc' = "loop"
               /\ i' = i + 1
            \/ \* os.remove raises inside the handler: nothing catches it
               /\ disk' = disk
               /\ ops' = ops \cup {"remove", "remove_failed"}
               /\ pc' = "uncaught"
               /\ i' = i
       ELSE /\ disk' = disk
            /\ ops' = ops
            /\ pc' = "loop"
            /\ i' = i + 1
    /\ Fixed
    /\ UNCHANGED <<dir_exists, video_messages, total, downloaded, skipped, summary,
                   calls, existed, leftover>>

\* download_videos, lines 150-157, and main, line 179
Summary ==
    /\ pc = "loop"
    /\ i > total
    /\ summary' = <<downloaded, skipped, errors>>
    /\ ops' = ops \cup {"disconnect"}
    /\ pc' = "exit"
    /\ Fixed
    /\ UNCHANGED <<disk, dir_exists, video_messages, total, i, downloaded, skipped,
                   errors, calls, outcome, existed, leftover>>

\* the process is killed while client.download_media is in flight
Kill ==
    /\ pc = "downloading"
    /\ pc' = "killed"
    /\ leftover' = IF filename(i) \in disk
                   THEN leftover \cup {<<filename(i), run>>}
                   ELSE leftover
    /\ Fixed
    /\ UNCHANGED <<disk, dir_exists, video_messages, total, i, downloaded, skipped,
                   errors, summary, ops, calls, outcome, existed>>

\* the program is started again on the same configuration, chat and directory
Rerun ==
    /\ pc \in {"exit", "uncaught", "killed"}
    /\ run < MaxRuns
    /\ run' = run + 1
    /\ pc' = "start"
    /\ video_messages' = <<>>
    /\ total' = 0
    /\ i' = 0
    /\ downloaded' = 0
    /\ skipped' = 0
    /\ errors' = 0
    /\ summary' = <<>>
    /\ ops' = {}
    /\ calls' = NoCalls
    /\ outcome' = NoOutcome
    /\ existed' = NoExisted
    /\ diskAtStart' = disk
    /\ UNCHANGED <<os_name, API_ID, API_HASH, CHAT_ID, args_list_chats, chat, disk,
                   dir_exists, leftover, name_in, name_out>>

Next ==
    \/ Main
    \/ ListChats
    \/ DownloadVideosBegin
    \/ Enumerate
    \/ LoopItem
    \/ DownloadProgress
    \/ DownloadReturns
    \/ DownloadRaises
    \/ Summary
    \/ Kill
    \/ Rerun

Spec == Init /\ [][Next]_vars

-----------------------------------------------------------------------------
(* The filename builder on its own *)

Date2 == [year |-> 2023, month |-> 12, day |-> 31]

FileNames == UNION {[1..n -> Alphabet] : n \in 0..MaxNameLen}

IndexSamples == {1, 42, 12345}

NameMessages ==
    {[date |-> Date1, video |-> TRUE,
      document |-> [present |-> TRUE, mime_type |-> "video/mp4",
                    attributes |-> <<AttrVideo, AttrFilename(n)>>]] : n \in FileNames}
    \cup
    {[date |-> Date2, video |-> TRUE,
      document |-> [present |-> TRUE, mime_type |-> m, attributes |-> <<AttrVideo>>]] :
        m \in {"", "video/mp4", "video/quicktime", "video/x-matroska", "video/webm",
               "video/x-msvideo", "video/3gpp"}}
    \cup
    {[date |-> Date2, video |-> TRUE, document |-> NoDocument]}

NameInit ==
    /\ os_name \in {"posix", "nt"}
    /\ name_in \in [message : NameMessages, index : IndexSamples]
    /\ name_out = <<>>
    /\ pc = "name"
    /\ API_ID = 0
    /\ API_HASH = ""
    /\ CHAT_ID = 0
    /\ args_list_chats = FALSE
    /\ chat = <<>>
    /\ disk = {}
    /\ dir_exists = FALSE
    /\ video_messages = <<>>
    /\ total = 0
    /\ i = 0
    /\ downloaded = 0
    /\ skipped = 0
    /\ errors = 0
    /\ summary = <<>>
    /\ ops = {}
    /\ run = 1
    /\ calls = NoCalls
    /\ outcome = NoOutcome
    /\ existed = NoExisted
    /\ diskAtStart = {}
    /\ leftover = {}

\* one call of get_video_filename, lines 35-62
BuildName ==
    /\ pc = "name"
    /\ name_out' = get_video_filename(name_in.message, name_in.index)
    /\ pc' = "named"
    /\ UNCHANGED <<os_name, name_in>>
    /\ UNCHANGED <<API_ID, API_HASH, CHAT_ID, args_list_chats, chat, disk, dir_exists,
                   video_messages, total, i, downloaded, skipped, errors, summary, ops,
                   run, calls, outcome, existed, diskAtStart, leftover>>

NameNext == BuildName

NameSpec == NameInit /\ [][NameNext]_vars

-----------------------------------------------------------------------------
(* Properties *)

\* item j's file was there when the run started exactly for the items 1..k
PrefixOnDisk(k) == \A j \in 1..total : (filename(j) \in diskAtStart) <=> (j <= k)

Ended == pc \in {"exit", "uncaught", "killed"}

NoVideoInChat == \A k \in 1..Len(chat) : ~chat[k].video

\* C1: when the directory holds at the start of a run exactly the files of items
\* 1..k, the run never invokes the download for items 1..k, invokes it at most
\* once and only for items k+1..n, has skipped == k when it ends, and has
\* invoked it for each of k+1..n when it reaches the summary.
C1_Idempotent ==
    (video_messages # <<>>) =>
        \A k \in 0..total :
            PrefixOnDisk(k) =>
                /\ \A j \in 1..k : calls[j] = 0
                /\ \A j \in Items : calls[j] <= 1 /\ (j > total => calls[j] = 0)
                /\ skipped <= k
                /\ Ended => skipped = k
                /\ summary # <<>> =>
                       /\ summary[2] = k
                       /\ \A j \in (k + 1)..total : calls[j] = 1

C1_Witness ==
    /\ run = 2
    /\ summary # <<>>
    /\ \E k \in 1..(total - 1) : PrefixOnDisk(k) /\ skipped = k /\ downloaded >= 1

\* C2 (as claimed): whenever the download raises with a partial file at the
\* destination path, the step that finishes the item leaves no file at that
\* path, adds exactly 1 to errors, leaves downloaded and skipped alone, and
\* moves the loop on to the next item.
C2_FailureCleanup ==
    [][(pc = "downloading" /\ filename(i) \in disk /\ errors' # errors) =>
          /\ filename(i) \notin disk'
          /\ errors' = errors + 1
          /\ downloaded' = downloaded
          /\ skipped' = skipped
          /\ pc' = "loop"
          /\ i' = i + 1]_vars

\* C3 (as claimed): with any of API id, API secret or chat id at its placeholder,
\* a run in download mode performs no operation at all on the client or the
\* filesystem.
C3_NoOperationAtAll ==
    (~args_list_chats /\ (API_ID = 0 \/ API_HASH = "" \/ CHAT_ID = 0)) =>
        /\ ops = {}
        /\ disk = diskAtStart

\* C3 (amended): with any of API id, API secret or chat id at its placeholder,
\* download_videos creates no directory, writes and deletes no file, resolves no
\* chat, enumerates no message and downloads nothing, and the run ends without
\* entering the loop; with API id or API secret at its placeholder no session is
\* started either, while with only the chat id at its placeholder main has
\* started the session before the gate and only disconnects afterwards.
C3_Gate ==
    (~args_list_chats /\ (API_ID = 0 \/ API_HASH = "" \/ CHAT_ID = 0)) =>
        /\ ops \subseteq {"start", "disconnect"}
        /\ disk = diskAtStart
        /\ pc \in {"start", "authorized", "exit"}
        /\ video_messages = <<>>
        /\ summary = <<>>
        /\ (API_ID = 0 \/ API_HASH = "") => ops = {}

C3_Witness ==
    /\ ~args_list_chats
    /\ CHAT_ID = 0
    /\ API_ID # 0
    /\ API_HASH # ""
    /\ pc = "exit"
    /\ ops = {"start", "disconnect"}

\* C4 (as claimed): a failure to delete the partial file is ignored: the run is
\* not ended by it.
C4_CleanupFailureIgnored == ("remove_failed" \in ops) => pc # "uncaught"

\* C5 (as claimed): the name built by get_video_filename holds no path separator
\* and no control character.
C5_NoSeparatorNoControl ==
    (pc = "named") =>
        \A k \in 1..Len(name_out) : name_out[k] \notin (Seps \cup ControlChars)

\* the items the loop has reached in this run
Reached(j) ==
    /\ video_messages # <<>>
    /\ j <= total
    /\ \/ j < i
       \/ j = i /\ pc \in {"downloading", "uncaught", "killed"}

\* C6: the download is invoked exactly once for each reached item whose file did
\* not exist when the loop reached it, never for a reached item whose file
\* existed, never for an item not reached yet, and never twice.
C6_SingleAttempt ==
    \A j \in Items :
        /\ calls[j] <= 1
        /\ Reached(j) => calls[j] = (IF existed[j] THEN 0 ELSE 1)
        /\ ~Reached(j) => calls[j] = 0

C6_Witness ==
    /\ summary # <<>>
    /\ \E j, k \in 1..total :
          /\ outcome[j] = "failed" /\ calls[j] = 1 /\ ~existed[j]
          /\ outcome[k] = "skipped" /\ calls[k] = 0 /\ existed[k]

\* C7: once the messages of a chat without video messages were enumerated, the
\* run has ended, all three counters are 0, the download was never invoked and
\* the files of the directory are those it held at the start.
C7_ZeroVideos ==
    (NoVideoInChat /\ "iter_messages" \in ops) =>
        /\ pc = "exit"
        /\ downloaded = 0 /\ skipped = 0 /\ errors = 0
        /\ calls = NoCalls
        /\ "download_media" \notin ops
        /\ disk = diskAtStart

C7_Witness ==
    /\ NoVideoInChat
    /\ Len(chat) > 0
    /\ "iter_messages" \in ops
    /\ pc = "exit"
    /\ "makedirs" \in ops
    /\ "disconnect" \in ops

\* C8: item k of the list is the message yielded (total - k + 1)-th; every item
\* before the current one has its outcome, a failed one has no file left, and no
\* item after the current one was checked or downloaded.
C8_Sequential ==
    (video_messages # <<>>) =>
        /\ total = Len(iter_messages(chat))
        /\ \A k \in 1..total : video_messages[k] = iter_messages(chat)[total - k + 1]
        /\ i \in 1..(total + 1)
        /\ \A j \in 1..total :
              /\ j < i => /\ outcome[j] # "none"
                          /\ outcome[j] = "failed" => filename(j) \notin disk
              /\ j > i => outcome[j] = "none" /\ calls[j] = 0 /\ ~existed[j]
              /\ (j = i /\ pc = "loop") => outcome[j] = "none" /\ calls[j] = 0

C8_Witness ==
    /\ pc = "downloading"
    /\ i = 2
    /\ total = 3
    /\ outcome[1] = "failed"
    /\ video_messages[1] # video_messages[3]

\* C9: a partial file left by a kill stays on disk, and in every later run the
\* download is never invoked for the item of that name, which is skipped once
\* the loop has reached it.
C9_PartialCountsAsDownloaded ==
    \A lf \in leftover :
        /\ lf[1] \in disk
        /\ (lf[2] < run /\ video_messages # <<>>) =>
               \A j \in 1..total :
                   (filename(j) = lf[1]) =>
                       /\ calls[j] = 0
                       /\ outcome[j] \in {"none", "skipped"}
                       /\ j < i => outcome[j] = "skipped"

C9_Witness ==
    /\ summary # <<>>
    /\ \E lf \in leftover :
          /\ lf[2] < run
          /\ \E j \in 1..total : filename(j) = lf[1] /\ outcome[j] = "skipped"

Count(v) == Cardinality({j \in Items : outcome[j] = v})

C10_Counters ==
    /\ downloaded = Count("downloaded")
    /\ skipped = Count("skipped")
    /\ errors = Count("failed")
    /\ pc = "loop" => downloaded + skipped + errors = i - 1
    /\ summary # <<>> => /\ summary = <<downloaded, skipped, errors>>
                         /\ downloaded + skipped + errors = total

C10_Step ==
    (run' = run /\ pc \in {"loop", "downloading"}) =>
        /\ downloaded' \in {downloaded, downloaded + 1}
        /\ skipped' \in {skipped, skipped + 1}
        /\ errors' \in {errors, errors + 1}
        /\ (downloaded' + skipped' + errors') - (downloaded + skipped + errors) \in {0, 1}
        /\ i' = i + 1 => downloaded' + skipped' + errors' = downloaded + skipped + errors + 1

\* C10: each counter is the number of items with that outcome, so after item i
\* the three add up to i and at the summary to total; within a run no counter
\* decreases and an iteration adds 1 to exactly one of them.
C10_OneOutcomePerItem == []C10_Counters /\ [][C10_Step]_vars

C10_Witness ==
    /\ summary # <<>>
    /\ downloaded >= 1
    /\ skipped >= 1
    /\ errors >= 1

====
